---- MODULE Spec2Model ----
(***************************************************************************)
(* A model of the v reactive-value library: the notification channel       *)
(* (detail::signal_base over a boost::signals2 signal), connections and    *)
(* scoped connections (cn, scoped_cn, store, value_cn), the property       *)
(* family (read_only_property_base, property_setter_base, property_base)   *)
(* and one_shot_property_base, the expiry token (expiry_token, expirable)  *)
(* and the attacher registry.                                              *)
(*                                                                         *)
(* Every operation of the library is synchronous, so an action is one      *)
(* call made by the embedding application together with the whole          *)
(* dispatch it starts: the callbacks run inside the action, in the         *)
(* recursive operator signal_dispatch.                                     *)
(***************************************************************************)
EXTENDS Integers, Sequences, FiniteSets

\* The most registrations ever made on the channel.
MaxSlots == 3
\* Property values are 0..MaxVal.
MaxVal == 2
\* The expirable objects are 1..MaxObjs; an object is its own address.
MaxObjs == 1
\* The most property_observer objects the application holds.
MaxFacades == 2
\* The deepest nesting of dispatches that is followed: a callback running
\* at this depth that writes the property is cut short.
MaxDepth == 3

Values == 0..MaxVal

\* The bodies of the callbacks the application registers: "count" only
\* records that it ran, "disc" calls disconnect() on the connection of
\* registration number `target` (its own or another one's), and "set"
\* (SetCallback) calls set(target) on the property it observes.
Callbacks ==
    {[kind |-> "count", target |-> 0]}
        \cup {[kind |-> "disc", target |-> k] : k \in 1..MaxSlots}

CountCallback == [kind |-> "count", target |-> 0]


VARIABLES
    value_,        \* read_only_property_base::value_
    flag_,         \* one_shot_property_base::flag_
    slots,         \* the signal's slot list, in registration order
    connection_,   \* value_cn::connection_ (0: references no registration)
    connections_,  \* store::connections_
    alive,         \* the objects that are constructed and not destroyed
    toggled,       \* the value_cn's last connect() or disconnect()
    facades,       \* the property_observer objects the application holds
    last,          \* the call the application made last
    log,           \* the callbacks that call invoked, in order
    token_,        \* expirable::token_ of every expirable object
    attached_objects_,  \* attacher::attached_objects_
    trace,         \* what the last call on a token or an attacher ran
    getter_,       \* getter_base::getter_
    counter,       \* the external state the bound functions read
    moved          \* the property move-constructed from the property

expiry_vars == <<token_, attached_objects_, trace>>

getter_vars == <<getter_, counter>>

vars ==
    <<value_, flag_, slots, connection_, connections_, alive, toggled,
      facades, last, log, expiry_vars, getter_vars, moved>>

----------------------------------------------------------------------------
(* The channel and its connections.                                        *)

\* The part of the state a call and the callbacks it runs read and write.
\* depth counts the dispatches that are running, one inside the other.
Cur ==
    [value_ |-> value_, flag_ |-> flag_, slots |-> slots, log |-> <<>>,
     depth |-> 0]

\* cn::disconnect(): the registration becomes inert; an empty connection
\* (0) and an already disconnected one are left as they are.
cn_disconnect_all(s, k) ==
    [i \in 1..Len(s) |-> [s[i] EXCEPT !.connected = FALSE]]

cn_disconnect(s, k) ==
    IF k \in 1..Len(s) THEN [s EXCEPT ![k].connected = FALSE] ELSE s

\* signal_base::observe(): the slot is connected at the back of the list.
signal_base_observe(s, cb, owner) ==
    Append(s, [slot |-> cb, connected |-> TRUE, owner |-> owner])

\* One slot being called by the signal: the callback runs and sees the
\* property's value of that moment; a "set" callback then calls
\* property_base::set(target) with the default flags.
RECURSIVE property_base_set(_, _, _, _)
slot_call(st, i) ==
    LET cb == st.slots[i].slot
        ran == [st EXCEPT !.log = Append(@, [id |-> i, seen |-> st.value_,
                                            depth |-> st.depth])]
    IN  CASE cb.kind = "disc" ->
                [ran EXCEPT !.slots = cn_disconnect(@, cb.target)]
          [] cb.kind = "set" /\ st.depth < MaxDepth ->
                property_base_set(ran, cb.target, TRUE, FALSE)
          [] OTHER -> ran

\* signal_(): the slots that were in the list when the call began are
\* visited in order, and one is called if it is still connected at its turn.
RECURSIVE signal_dispatch_stale(_, _, _, _)
signal_dispatch_stale(st, i, n, was) ==
    IF i > n THEN st
    ELSE IF was[i].connected
         THEN signal_dispatch_stale(slot_call(st, i), i + 1, n, was)
         ELSE signal_dispatch_stale(st, i + 1, n, was)

RECURSIVE signal_dispatch_reversed(_, _, _)
signal_dispatch_reversed(st, i, n) ==
    IF i > n THEN st
    ELSE IF st.slots[n + 1 - i].connected
         THEN signal_dispatch_reversed(slot_call(st, n + 1 - i), i + 1, n)
         ELSE signal_dispatch_reversed(st, i + 1, n)

RECURSIVE signal_dispatch(_, _, _)
signal_dispatch(st, i, n) ==
    IF i > n THEN st
    ELSE IF st.slots[i].connected
         THEN signal_dispatch(slot_call(st, i), i + 1, n)
         ELSE signal_dispatch(st, i + 1, n)

\* ~signal_base(): the boost signal disconnects every slot as it is
\* destroyed; the connections that remain reference nothing connected.
signal_base_destroy_forgets(st) == st

signal_base_destroy(st) ==
    [st EXCEPT !.slots = [i \in 1..Len(@) |-> [@[i] EXCEPT !.connected = FALSE]]]

signal_base_notify_stale(st) ==
    signal_dispatch_stale(st, 1, Len(st.slots), st.slots)

signal_base_notify_reversed(st) ==
    signal_dispatch_reversed(st, 1, Len(st.slots))

signal_base_notify(st) ==
    [signal_dispatch([st EXCEPT !.depth = @ + 1], 1, Len(st.slots))
        EXCEPT !.depth = st.depth]

----------------------------------------------------------------------------
(* The property family.                                                    *)

read_only_property_base_notify_resets(st) ==
    [signal_base_notify(st) EXCEPT !.value_ = 0]

read_only_property_base_notify(st) ==
    signal_base_notify(st)

read_only_property_base_set_always_notifies(st, value, notify, force) ==
    IF value = st.value_ /\ ~force THEN st
    ELSE read_only_property_base_notify([st EXCEPT !.value_ = value])

read_only_property_base_set_unguarded(st, value, notify, force) ==
    LET stored == [st EXCEPT !.value_ = value]
    IN  IF notify THEN read_only_property_base_notify(stored) ELSE stored

read_only_property_base_set_ignores_force(st, value, notify, force) ==
    IF value = st.value_ THEN st
    ELSE LET stored == [st EXCEPT !.value_ = value]
         IN  IF notify THEN read_only_property_base_notify(stored) ELSE stored

read_only_property_base_set_notifies_first(st, value, notify, force) ==
    IF value = st.value_ /\ ~force THEN st
    ELSE [(IF notify THEN read_only_property_base_notify(st) ELSE st)
            EXCEPT !.value_ = value]

read_only_property_base_set(st, value, notify, force) ==
    IF value = st.value_ /\ ~force THEN st
    ELSE LET stored == [st EXCEPT !.value_ = value]
         IN  IF notify THEN read_only_property_base_notify(stored) ELSE stored

property_setter_base_set(st, value, notify, force) ==
    read_only_property_base_set(st, value, notify, force)

property_setter_base_assign(st, value) ==
    property_setter_base_set(st, value, TRUE, FALSE)

property_base_set_latching(st, value, notify, force) ==
    IF st.flag_ THEN st
    ELSE [property_setter_base_set(st, value, notify, force)
            EXCEPT !.flag_ = TRUE]

property_base_set(st, value, notify, force) ==
    property_setter_base_set(st, value, notify, force)

property_base_assign(st, value) ==
    property_setter_base_assign(st, value)

\* read_only_property_base::get(), operator*
read_only_property_base_get(st) == st.value_

\* Reading through a const T*: the only object a facade can point into is
\* the property's value_ member.
Deref(st, ptr) == CASE ptr = "property.value_" -> st.value_

\* read_only_property_base::observer(): a facade holding the address of
\* value_ and a connector that connects on the property's signal_.
read_only_property_base_observer(st) ==
    [value_ |-> "property.value_", connector_ |-> "property.signal_"]

\* property_observer's copy constructor: both members are copied.
property_observer_copy(f) ==
    [value_ |-> f.value_, connector_ |-> f.connector_]

\* property_observer::get(), operator*
property_observer_get_default(st, f) == 0

property_observer_get(st, f) == Deref(st, f.value_)

\* property_observer::observe(slot), operator>>: connector_(slot).
property_observer_observe(st, f, cb, owner) ==
    CASE f.connector_ = "property.signal_" ->
            [st EXCEPT !.slots = signal_base_observe(@, cb, owner)]

one_shot_property_base_set_latches_on_change(st, value, notify, force) ==
    IF st.flag_ THEN st
    ELSE [property_base_set(st, value, notify, force)
            EXCEPT !.flag_ = (value # st.value_ \/ force)]

one_shot_property_base_set_unlatched(st, value, notify, force) ==
    [property_base_set(st, value, notify, force) EXCEPT !.flag_ = TRUE]

one_shot_property_base_set(st, value, notify, force) ==
    IF st.flag_ THEN st
    ELSE [property_base_set(st, value, notify, force) EXCEPT !.flag_ = TRUE]

one_shot_property_base_assign(st, value) ==
    IF st.flag_ THEN st
    ELSE [property_base_assign(st, value) EXCEPT !.flag_ = TRUE]

----------------------------------------------------------------------------
(* Scoped connections: value_cn and store.                                 *)

\* The part of the state the holders of scoped connections work on.
Held == [slots |-> slots, connection_ |-> connection_,
         connections_ |-> connections_]

Range(q) == {q[p] : p \in DOMAIN q}

\* value_cn::connect(): connection_ = observer_.observe(slot_). The slot
\* is registered first; assigning the connection it returns to the
\* scoped_cn then disconnects the registration connection_ held before.
value_cn_connect_leaks(h) ==
    [h EXCEPT !.slots = signal_base_observe(@, CountCallback, "value_cn"),
              !.connection_ = Len(h.slots) + 1]

value_cn_connect(h) ==
    LET registered == signal_base_observe(h.slots, CountCallback, "value_cn")
    IN  [h EXCEPT !.slots = cn_disconnect(registered, h.connection_),
                  !.connection_ = Len(registered)]

\* value_cn::disconnect(): connection_.disconnect(); the scoped_cn still
\* references the (now inert) registration.
value_cn_disconnect(h) ==
    [h EXCEPT !.slots = cn_disconnect(@, h.connection_)]

\* value_cn(observer, slot, start_disconnected)
value_cn_construct(h, start_disconnected) ==
    IF start_disconnected THEN [h EXCEPT !.connection_ = 0]
    ELSE value_cn_connect([h EXCEPT !.connection_ = 0])

\* ~value_cn(): the scoped_cn member disconnects what it references.
value_cn_destroy(h) ==
    [h EXCEPT !.slots = cn_disconnect(@, h.connection_), !.connection_ = 0]

\* store::operator+=(scoped_cn&&), given the connection of a registration
\* just made: the scoped_cn is moved into the vector, still connected.
store_add(h, cb) ==
    [h EXCEPT !.slots = signal_base_observe(@, cb, "store"),
              !.connections_ = Append(@, Len(h.slots) + 1)]

\* ~store(): every scoped_cn of the vector disconnects its registration.
store_destroy(h) ==
    [h EXCEPT !.slots = [i \in 1..Len(h.slots) |->
                            IF i \in Range(h.connections_)
                            THEN [h.slots[i] EXCEPT !.connected = FALSE]
                            ELSE h.slots[i]],
              !.connections_ = <<>>]

----------------------------------------------------------------------------
(* The expiry token, expirable objects and the attacher registry.          *)

Objs == 1..MaxObjs

\* std::hash<U>()(object) of an object pointer: its address.
hash(object) == object

\* What is registered on a token: "count" records only that it ran,
\* "detach" is the on_expired lambda attacher::attach builds for the object
\* `target`; it calls attacher::detach(target); "expire" calls expire() on
\* the object `target`.
CountExpiry == [kind |-> "count", target |-> 0]
ExpireCallback(object) == [kind |-> "expire", target |-> object]
OnExpired(object) == [kind |-> "detach", target |-> object]

\* A token as constructed: not expired, its signal without slots.
NewToken == [alive |-> TRUE, expired_ |-> FALSE, signal_ |-> <<>>]

\* The part of the state a call on a token or on the attacher, and the
\* callbacks it runs, read and write; `depth` is the number of expiry
\* dispatches in progress, `on_attach` what the owner's update() does with
\* an attach tag besides being called: nothing ("record") or expire() on
\* the object ("expire").
CurExpiry ==
    [token_ |-> token_, attached_objects_ |-> attached_objects_,
     trace |-> <<>>, depth |-> 0, on_attach |-> "record"]

\* A slot of the token of `object` being called (id: its place in the
\* list), or the owner's update() being called with an attach or a detach
\* tag for `object` (id 0); `expired` is the token's flag at that moment,
\* `depth` the number of dispatches in progress.
Event(ts, what, object, id) ==
    [what |-> what, obj |-> object, id |-> id,
     expired |-> ts.token_[object].expired_, depth |-> ts.depth]

\* attacher::detach(object): the entry is erased, which destroys its
\* scoped_cn and so disconnects the expiry subscription; then the owner's
\* update() is called with the detach tag.
attacher_detach_keeps_subscription(ts, object) ==
    [ts EXCEPT !.trace = Append(@, Event(ts, "detach", object, 0))]

attacher_detach_checks_registry(ts, object) ==
    LET k == hash(object)
        id == ts.attached_objects_[k]
        erased == [ts EXCEPT !.attached_objects_[k] = 0,
                             !.token_[object].signal_ = cn_disconnect(@, id)]
    IN  IF id = 0 THEN ts
        ELSE [erased EXCEPT
                !.trace = Append(@, Event(erased, "detach", object, 0))]

attacher_detach(ts, object) ==
    LET k == hash(object)
        id == ts.attached_objects_[k]
        erased == IF id = 0 THEN ts
                  ELSE [ts EXCEPT !.attached_objects_[k] = 0,
                                  !.token_[object].signal_ =
                                      cn_disconnect(@, id)]
    IN  [erased EXCEPT !.trace = Append(@, Event(erased, "detach", object, 0))]

\* One slot of the token's signal being called. A slot that calls expire()
\* is followed as long as fewer than MaxDepth dispatches are in progress.
RECURSIVE expiry_token_expire(_, _)
expiry_slot_call(ts, o, i) ==
    LET cb == ts.token_[o].signal_[i].slot
        ran == [ts EXCEPT !.trace = Append(@, Event(ts, "slot", o, i))]
    IN  CASE cb.kind = "detach" -> attacher_detach(ran, cb.target)
          [] cb.kind = "expire" /\ ts.depth < MaxDepth ->
                expiry_token_expire(ran, cb.target)
          [] OTHER -> ran

\* signal_() of the token of o: as signal_dispatch, on the token's list.
RECURSIVE expiry_dispatch(_, _, _, _)
expiry_dispatch(ts, o, i, n) ==
    IF i > n THEN ts
    ELSE IF ts.token_[o].signal_[i].connected
         THEN expiry_dispatch(expiry_slot_call(ts, o, i), o, i + 1, n)
         ELSE expiry_dispatch(ts, o, i + 1, n)

\* signal_() of the token of o, called from expire().
expiry_token_fire(ts, o) ==
    [expiry_dispatch([ts EXCEPT !.depth = @ + 1],
                     o, 1, Len(ts.token_[o].signal_))
        EXCEPT !.depth = ts.depth]

\* expiry_token::expire()
expiry_token_expire_unguarded(ts, o) ==
    expiry_token_fire([ts EXCEPT !.token_[o].expired_ = TRUE], o)

expiry_token_expire_fires_first(ts, o) ==
    IF ts.token_[o].expired_ THEN ts
    ELSE [expiry_token_fire(ts, o) EXCEPT !.token_[o].expired_ = TRUE]

expiry_token_expire(ts, o) ==
    IF ts.token_[o].expired_ THEN ts
    ELSE expiry_token_fire([ts EXCEPT !.token_[o].expired_ = TRUE], o)

\* expiry_token::is_expired()
expiry_token_is_expired(ts, o) == ts.token_[o].expired_

\* expiry_token::observe_expiry(slot): signal_ >> slot, nothing else.
expiry_token_observe_expiry_fires_late(ts, o, cb, owner) ==
    LET observed ==
            [ts EXCEPT !.token_[o].signal_ = signal_base_observe(@, cb, owner)]
    IN  IF ts.token_[o].expired_
        THEN expiry_slot_call(observed, o, Len(observed.token_[o].signal_))
        ELSE observed

expiry_token_observe_expiry(ts, o, cb, owner) ==
    [ts EXCEPT !.token_[o].signal_ = signal_base_observe(@, cb, owner)]

\* The signal_ member being destroyed: every slot is disconnected, and the
\* connections left behind are inert.
signal_destroy(ts, o) ==
    [ts EXCEPT !.token_[o].alive = FALSE,
               !.token_[o].signal_ =
                   [i \in 1..Len(@) |-> [@[i] EXCEPT !.connected = FALSE]]]

\* expiry_token::~expiry_token(): expire(), then the members are destroyed.
expiry_token_destroy_refires(ts, o) ==
    signal_destroy(expiry_token_expire_unguarded(ts, o), o)

expiry_token_destroy(ts, o) ==
    signal_destroy(expiry_token_expire(ts, o), o)

\* The expiry_token that declares no destructor: only the members are
\* destroyed.
expiry_token_implicit_destroy(ts, o) ==
    signal_destroy(ts, o)

\* expirable::expire(), is_expired(), observe_expiry(): the token's.
expirable_expire(ts, o) == expiry_token_expire(ts, o)

expirable_is_expired(ts, o) == expiry_token_is_expired(ts, o)

expirable_observe_expiry(ts, o, cb, owner) ==
    expiry_token_observe_expiry(ts, o, cb, owner)

\* observe_expiry(object, slot)
observe_expiry(ts, object, cb, owner) ==
    expirable_observe_expiry(ts, object, cb, owner)

\* owner_->update(v::attach<U>{object}): the owner's code, which is called
\* and may expire the object it is given.
update_attach(ts, object) ==
    LET called == [ts EXCEPT !.trace = Append(@, Event(ts, "attach", object, 0))]
    IN  IF ts.on_attach = "expire" THEN expirable_expire(called, object)
        ELSE called

\* attacher::attach(object): the owner's update() is called with the attach
\* tag, then the object's expiry is subscribed to and the scoped connection
\* is assigned to the entry of the object's key; assigning disconnects the
\* registration the entry held before.
attacher_attach_unsubscribed(ts, object) ==
    update_attach(ts, object)

attacher_attach_keeps_old(ts, object) ==
    LET hooked == update_attach(ts, object)
        observed == observe_expiry(hooked, object, OnExpired(object), "attacher")
    IN  [observed EXCEPT
            !.attached_objects_[hash(object)] =
                Len(observed.token_[object].signal_)]

attacher_attach(ts, object) ==
    LET hooked == update_attach(ts, object)
        observed == observe_expiry(hooked, object, OnExpired(object), "attacher")
        k == hash(object)
        held == observed.attached_objects_[k]
    IN  [observed EXCEPT
            !.token_[object].signal_ = cn_disconnect(@, held),
            !.attached_objects_[k] = Len(observed.token_[object].signal_)]

\* ~attacher(): the map is destroyed and with it every scoped_cn it holds,
\* each disconnecting its expiry subscription; no hook is called. A
\* subscription released this way is marked as held by the destroyed
\* attacher.
attacher_destroy_leaks(ts) ==
    [ts EXCEPT !.attached_objects_ = [k \in DOMAIN @ |-> 0]]

attacher_destroy(ts) ==
    [ts EXCEPT
        !.attached_objects_ = [k \in DOMAIN @ |-> 0],
        !.token_ = [x \in DOMAIN @ |->
            [@[x] EXCEPT !.signal_ = [i \in 1..Len(@) |->
                IF i = ts.attached_objects_[hash(x)]
                THEN [@[i] EXCEPT !.connected = FALSE,
                                  !.owner = "destroyed attacher"]
                ELSE @[i]]]]]

\* No expirable object and no attacher is in use.
NoExpirables ==
    /\ token_ = [o \in Objs |-> NewToken]
    /\ attached_objects_ = [o \in Objs |-> 0]
    /\ trace = <<>>

----------------------------------------------------------------------------
(* The getter and its observer facade.                                     *)

\* The std::function<T()> values bound to a getter: the empty one, and
\* closures that read the external counter by reference and return it with
\* `add` added (two closures, so that one can tell which is bound).
EmptyFn == [bound |-> FALSE, add |-> 0]

Closure(k) == [bound |-> TRUE, add |-> k]

GetterFns == {EmptyFn, Closure(0), Closure(1)}

\* How a call ends: it returns `value`, or it throws (value: nothing).
Returned(v) == [outcome |-> "returned", value |-> v]

Threw(what) == [outcome |-> what, value |-> 0]

\* std::function::operator(): the empty function throws
\* std::bad_function_call, a closure runs on the counter as it is now.
std_function_call(fn, c) ==
    IF fn.bound THEN Returned((c + fn.add) % (MaxVal + 1))
    ELSE Threw("bad_function_call")

\* std::function::operator bool
std_function_bool(fn) == fn.bound

\* getter_base::set(getter)
getter_base_set(fn) == fn

\* getter_base::get(), operator(), operator*: getter_() each time.
getter_base_get_stale(fn, c) ==
    std_function_call(fn, 0)

getter_base_get(fn, c) ==
    std_function_call(fn, c)

\* getter_base::notify()
getter_base_notify(st) ==
    signal_base_notify(st)

\* getter_base::observer(): a facade holding a copy of getter_ and a
\* connector that connects on the getter's signal_.
getter_base_observer(fn) ==
    [getter_ |-> fn, connector_ |-> "getter.signal_"]

\* getter_observer(): both members empty.
getter_observer_default ==
    [getter_ |-> EmptyFn, connector_ |-> "empty"]

\* getter_observer::get(), operator()
getter_observer_get_live(f, c) ==
    std_function_call(getter_, c)

getter_observer_get_defaults(f, c) ==
    IF f.getter_.bound THEN std_function_call(f.getter_, c) ELSE Returned(0)

getter_observer_get(f, c) ==
    std_function_call(f.getter_, c)

\* getter_observer::operator bool
getter_observer_bool(f) == std_function_bool(f.getter_)

\* getter_observer::observe(slot), operator>>: connector_(slot); an empty
\* connector_ throws and connects nothing.
getter_observer_observe(st, f, cb, owner) ==
    IF f.connector_ = "getter.signal_"
    THEN [st EXCEPT !.slots = signal_base_observe(@, cb, owner)]
    ELSE st

\* No getter is in use.
NoGetter ==
    /\ getter_ = EmptyFn
    /\ counter = 0

----------------------------------------------------------------------------
(* A property constructed from another by its move constructor.            *)

\* The object that does not exist yet. Once made, it has its own value_
\* and signal_, and its setter_ holds a pointer: to the object itself
\* ("this") or to the object it was constructed from ("rhs").
NotMoved ==
    [made |-> FALSE, value_ |-> 0, signal_ |-> <<>>, setter_ |-> "none"]

\* The two objects a move constructor works on: `rhs`, the property the
\* rest of the model is about, and `this`; `ended` says how a call on a
\* moved-from signal ended, if one was made.
CurMove == [rhs |-> Cur, this |-> moved, ended |-> "returned"]

\* read_only_property_base(read_only_property_base&&): value_ and signal_
\* are move-constructed from those of rhs. The value of rhs stays what it
\* was (T is an integer), its signal is left without its slots.
read_only_property_base_move(w) ==
    [w EXCEPT !.this.made = TRUE,
              !.this.value_ = w.rhs.value_,
              !.this.signal_ = w.rhs.slots,
              !.rhs.slots = <<>>]

\* property_base(property_base&&): the base is moved, setter_{ this }.
property_base_move(w) ==
    [read_only_property_base_move(w) EXCEPT !.this.setter_ = "this"]

\* Property(Property&&) = default: the base is moved and setter_ is
\* move-constructed from rhs.setter_, whose property_ points to rhs.
Property_move_default(w) ==
    [read_only_property_base_move(w) EXCEPT !.this.setter_ = "rhs"]

\* read_only_property_base::set on rhs after it was moved from: as on any
\* property up to notify(), which calls a signal that was moved from. What
\* that call does is not defined: `ub` is how it ends, without a slot
\* being called ("returned") or with the program ("crashed").
moved_from_set(w, value, notify, force, ub) ==
    IF value = w.rhs.value_ /\ ~force THEN w
    ELSE [w EXCEPT !.rhs.value_ = value,
                   !.ended = IF notify THEN ub ELSE "returned"]

\* property_base::set(value, notify, force) on the object constructed by
\* the move: setter_.set(...), which is property_->set(...).
moved_set(w, value, notify, force, ub) ==
    IF w.this.setter_ = "this"
    THEN LET own == [w.rhs EXCEPT !.value_ = w.this.value_,
                                  !.slots = w.this.signal_]
             st == property_setter_base_set(own, value, notify, force)
         IN  [w EXCEPT !.this.value_ = st.value_,
                       !.this.signal_ = st.slots,
                       !.rhs.log = st.log]
    ELSE moved_from_set(w, value, notify, force, ub)

\* property_base::operator=(value) on that object: setter_.operator=(value).
moved_assign(w, value, ub) ==
    moved_set(w, value, TRUE, FALSE, ub)

----------------------------------------------------------------------------
(* Calls made by the application.                                          *)

\* What is recorded of a call: its arguments, and the property's value,
\* the latch and the connected registrations as they were when it was made.
ActiveIds(s) == {i \in 1..Len(s) : s[i].connected}

Call(op, v, notify, force, id) ==
    [op |-> op, v |-> v, notify |-> notify, force |-> force, id |-> id,
     old |-> value_, latched |-> flag_, active |-> ActiveIds(slots)]

\* The state a call leaves behind.
Becomes(st) ==
    /\ value_' = st.value_
    /\ flag_' = st.flag_
    /\ slots' = st.slots
    /\ log' = st.log

Init ==
    /\ value_ \in Values
    /\ flag_ = FALSE
    /\ slots = <<>>
    /\ connection_ = 0
    /\ connections_ = <<>>
    /\ alive = {"property"}
    /\ toggled = "none"
    /\ facades = <<>>
    /\ last = Call("construct", value_, FALSE, FALSE, 0)
    /\ log = <<>>
    /\ NoExpirables
    /\ NoGetter
    /\ moved = NotMoved

\* property_base::set(value, notify, force)
Set ==
    \E v \in Values, notify \in BOOLEAN, force \in BOOLEAN :
        /\ Becomes(property_base_set(Cur, v, notify, force))
        /\ last' = Call("set", v, notify, force, 0)
        /\ UNCHANGED <<connection_, connections_, alive, toggled, facades,
                 expiry_vars, getter_vars, moved>>

\* property_base::operator=(value)
Assign ==
    \E v \in Values :
        /\ Becomes(property_base_assign(Cur, v))
        /\ last' = Call("set", v, TRUE, FALSE, 0)
        /\ UNCHANGED <<connection_, connections_, alive, toggled, facades,
                 expiry_vars, getter_vars, moved>>

\* read_only_property_base::notify()
Notify ==
    /\ Becomes(read_only_property_base_notify(Cur))
    /\ last' = Call("notify", value_, TRUE, FALSE, 0)
    /\ UNCHANGED <<connection_, connections_, alive, toggled, facades,
                 expiry_vars, getter_vars, moved>>

\* read_only_property_base::get(), operator*, operator->
Get ==
    /\ Becomes(Cur)
    /\ last' = Call("get", value_, FALSE, FALSE, 0)
    /\ UNCHANGED <<connection_, connections_, alive, toggled, facades,
                 expiry_vars, getter_vars, moved>>

\* read_only_property_base::observer(): builds a facade, registers nothing.
Observer ==
    /\ Becomes(Cur)
    /\ last' = Call("observer", value_, FALSE, FALSE, 0)
    /\ UNCHANGED <<connection_, connections_, alive, toggled, facades,
                 expiry_vars, getter_vars, moved>>

\* read_only_property_base::observe(slot), operator>>, with a callback
\* that counts its invocations; the application keeps the connection.
Observe ==
    /\ Len(slots) < MaxSlots
    /\ Becomes([Cur EXCEPT !.slots =
                    signal_base_observe(@, CountCallback, "user")])
    /\ last' = Call("observe", value_, FALSE, FALSE, Len(slots) + 1)
    /\ UNCHANGED <<connection_, connections_, alive, toggled, facades,
                 expiry_vars, getter_vars, moved>>

\* cn::disconnect() on a connection the application keeps.
Disconnect ==
    \E k \in 1..Len(slots) :
        /\ slots[k].owner = "user"
        /\ Becomes([Cur EXCEPT !.slots = cn_disconnect(@, k)])
        /\ last' = Call("disconnect", value_, FALSE, FALSE, k)
        /\ UNCHANGED <<connection_, connections_, alive, toggled, facades,
                 expiry_vars, getter_vars, moved>>

Next ==
    \/ Set
    \/ Assign
    \/ Notify
    \/ Get
    \/ Observer
    \/ Observe
    \/ Disconnect

Spec == Init /\ [][Next]_vars

----------------------------------------------------------------------------
(* A signal whose callbacks disconnect registrations (SpecSignal).         *)

\* signal_base::observe(slot), operator>>, with any of the callbacks.
SignalObserve ==
    /\ Len(slots) < MaxSlots
    /\ \E cb \in Callbacks :
        Becomes([Cur EXCEPT !.slots = signal_base_observe(@, cb, "user")])
    /\ last' = Call("observe", value_, FALSE, FALSE, Len(slots) + 1)
    /\ UNCHANGED <<connection_, connections_, alive, toggled, facades,
                 expiry_vars, getter_vars, moved>>

\* signal_base::notify(), operator()
SignalNotify ==
    /\ Becomes(signal_base_notify(Cur))
    /\ last' = Call("notify", value_, TRUE, FALSE, 0)
    /\ UNCHANGED <<connection_, connections_, alive, toggled, facades,
                 expiry_vars, getter_vars, moved>>

InitSignal ==
    /\ value_ = 0
    /\ flag_ = FALSE
    /\ slots = <<>>
    /\ connection_ = 0
    /\ connections_ = <<>>
    /\ alive = {"signal"}
    /\ toggled = "none"
    /\ facades = <<>>
    /\ last = Call("construct", value_, FALSE, FALSE, 0)
    /\ log = <<>>
    /\ NoExpirables
    /\ NoGetter
    /\ moved = NotMoved

NextSignal ==
    \/ SignalObserve
    \/ SignalNotify
    \/ Disconnect

SpecSignal == InitSignal /\ [][NextSignal]_vars

----------------------------------------------------------------------------
(* A one_shot_property_base and its observers (SpecOneShot).               *)

\* one_shot_property_base::set(value, notify, force)
OneShotSet ==
    \E v \in Values, notify \in BOOLEAN, force \in BOOLEAN :
        /\ Becomes(one_shot_property_base_set(Cur, v, notify, force))
        /\ last' = Call("one_shot_set", v, notify, force, 0)
        /\ UNCHANGED <<connection_, connections_, alive, toggled, facades,
                 expiry_vars, getter_vars, moved>>

\* one_shot_property_base::operator=(value)
OneShotAssign ==
    \E v \in Values :
        /\ Becomes(one_shot_property_base_assign(Cur, v))
        /\ last' = Call("one_shot_set", v, TRUE, FALSE, 0)
        /\ UNCHANGED <<connection_, connections_, alive, toggled, facades,
                 expiry_vars, getter_vars, moved>>

NextOneShot ==
    \/ OneShotSet
    \/ OneShotAssign
    \/ Notify
    \/ Observe
    \/ Disconnect

SpecOneShot == Init /\ [][NextOneShot]_vars

----------------------------------------------------------------------------
(* A one_shot_property_base also written through its base class            *)
(* (SpecOneShotBase): Set and Assign are property_base::set and            *)
(* property_base::operator=, which are not virtual, called on the object   *)
(* through a reference to property_base.                                   *)

NextOneShotBase ==
    \/ OneShotSet
    \/ OneShotAssign
    \/ Set
    \/ Assign
    \/ Observe

SpecOneShotBase == Init /\ [][NextOneShotBase]_vars

----------------------------------------------------------------------------
(* A property observed through a value_cn and a store (SpecScoped).        *)

HeldBecomes(h) ==
    /\ slots' = h.slots
    /\ connection_' = h.connection_
    /\ connections_' = h.connections_
    /\ log' = <<>>
    /\ UNCHANGED <<value_, flag_, facades, expiry_vars, getter_vars, moved>>

InitScoped ==
    /\ value_ \in Values
    /\ flag_ = FALSE
    /\ slots = <<>>
    /\ connection_ = 0
    /\ connections_ = <<>>
    /\ alive = {"property", "store"}
    /\ toggled = "none"
    /\ facades = <<>>
    /\ last = Call("construct", value_, FALSE, FALSE, 0)
    /\ log = <<>>
    /\ NoExpirables
    /\ NoGetter
    /\ moved = NotMoved

ValueCnConstruct ==
    /\ "value_cn" \notin alive
    /\ \E start_disconnected \in BOOLEAN :
        /\ start_disconnected \/ Len(slots) < MaxSlots
        /\ HeldBecomes(value_cn_construct(Held, start_disconnected))
        /\ last' = Call("value_cn", value_, FALSE, FALSE,
                         IF start_disconnected THEN 0 ELSE Len(slots) + 1)
    /\ alive' = alive \cup {"value_cn"}
    /\ toggled' = IF last'.id = 0 THEN "disconnect" ELSE "connect"

ValueCnConnect ==
    /\ "value_cn" \in alive
    /\ Len(slots) < MaxSlots
    /\ HeldBecomes(value_cn_connect(Held))
    /\ last' = Call("value_cn_connect", value_, FALSE, FALSE, Len(slots) + 1)
    /\ UNCHANGED alive
    /\ toggled' = IF toggled \in {"connect", "connect_again"}
                  THEN "connect_again" ELSE "connect"

ValueCnDisconnect ==
    /\ "value_cn" \in alive
    /\ HeldBecomes(value_cn_disconnect(Held))
    /\ last' = Call("value_cn_disconnect", value_, FALSE, FALSE, connection_)
    /\ UNCHANGED alive
    /\ toggled' = "disconnect"

ValueCnDestroy ==
    /\ "value_cn" \in alive
    /\ HeldBecomes(value_cn_destroy(Held))
    /\ last' = Call("value_cn_destroy", value_, FALSE, FALSE, connection_)
    /\ alive' = alive \ {"value_cn"}
    /\ toggled' = "none"

StoreConstruct ==
    /\ "store" \notin alive
    /\ HeldBecomes([Held EXCEPT !.connections_ = <<>>])
    /\ last' = Call("store", value_, FALSE, FALSE, 0)
    /\ alive' = alive \cup {"store"}
    /\ UNCHANGED toggled

\* store += property.observe(slot)
StoreAdd ==
    /\ "store" \in alive
    /\ Len(slots) < MaxSlots
    /\ HeldBecomes(store_add(Held, CountCallback))
    /\ last' = Call("store_add", value_, FALSE, FALSE, Len(slots) + 1)
    /\ UNCHANGED alive
    /\ UNCHANGED toggled

StoreDestroy ==
    /\ "store" \in alive
    /\ HeldBecomes(store_destroy(Held))
    /\ last' = Call("store_destroy", value_, FALSE, FALSE, 0)
    /\ alive' = alive \ {"store"}
    /\ UNCHANGED toggled

NextScoped ==
    \/ ValueCnConstruct
    \/ ValueCnConnect
    \/ ValueCnDisconnect
    \/ ValueCnDestroy
    \/ StoreConstruct
    \/ StoreAdd
    \/ StoreDestroy
    \/ Notify

SpecScoped == InitScoped /\ [][NextScoped]_vars

----------------------------------------------------------------------------
(* Expirable objects and their observers (SpecExpiry).                     *)

\* What is recorded of a call on the expirable `o`: the call, and the
\* token's flag, the registry's entry and the connected registrations of
\* the token as they were when it was made.
TokenCall(op, o) ==
    [op |-> op, obj |-> o, expired |-> token_[o].expired_,
     attached |-> attached_objects_[hash(o)],
     active |-> ActiveIds(token_[o].signal_)]

ExpiryBecomes(ts) ==
    /\ token_' = ts.token_
    /\ attached_objects_' = ts.attached_objects_
    /\ trace' = ts.trace
    /\ UNCHANGED <<value_, flag_, slots, connection_, connections_, toggled,
                   facades, log, getter_vars, moved>>

InitExpiry ==
    /\ value_ = 0
    /\ flag_ = FALSE
    /\ slots = <<>>
    /\ connection_ = 0
    /\ connections_ = <<>>
    /\ alive = {}
    /\ toggled = "none"
    /\ facades = <<>>
    /\ log = <<>>
    /\ NoExpirables
    /\ NoGetter
    /\ moved = NotMoved
    /\ last = TokenCall("construct", 1)

\* expirable::expire()
Expire(o) ==
    /\ token_[o].alive
    /\ ExpiryBecomes(expirable_expire(CurExpiry, o))
    /\ last' = TokenCall("expire", o)
    /\ UNCHANGED alive

\* expirable::is_expired()
IsExpired(o) ==
    /\ token_[o].alive
    /\ ExpiryBecomes(CurExpiry)
    /\ last' = TokenCall("is_expired", o)
    /\ UNCHANGED alive

\* expirable::observe_expiry(slot), the connection kept by the caller; a
\* registration made after the expiry is marked "late".
ObserveExpiry(o) ==
    /\ token_[o].alive
    /\ Len(token_[o].signal_) < MaxSlots
    /\ ExpiryBecomes(expirable_observe_expiry(
            CurExpiry, o, CountExpiry,
            IF token_[o].expired_ THEN "late" ELSE "user"))
    /\ last' = TokenCall("observe_expiry", o)
    /\ UNCHANGED alive

\* cn::disconnect() on a connection observe_expiry returned
DisconnectExpiry(o) ==
    \E k \in 1..Len(token_[o].signal_) :
        /\ token_[o].signal_[k].owner \in {"user", "late"}
        /\ ExpiryBecomes([CurExpiry EXCEPT
                            !.token_[o].signal_ = cn_disconnect(@, k)])
        /\ last' = TokenCall("disconnect", o)
        /\ UNCHANGED alive

\* The expirable being destroyed: expirable::token_ is destroyed.
Destroy(o) ==
    /\ token_[o].alive
    /\ ExpiryBecomes(expiry_token_destroy(CurExpiry, o))
    /\ last' = TokenCall("destroy", o)
    /\ UNCHANGED alive

NextExpiry ==
    \E o \in Objs :
        \/ Expire(o)
        \/ IsExpired(o)
        \/ ObserveExpiry(o)
        \/ DisconnectExpiry(o)
        \/ Destroy(o)

SpecExpiry == InitExpiry /\ [][NextExpiry]_vars

\* The same with the expiry_token that declares no destructor.
DestroyImplicit(o) ==
    /\ token_[o].alive
    /\ ExpiryBecomes(expiry_token_implicit_destroy(CurExpiry, o))
    /\ last' = TokenCall("destroy", o)
    /\ UNCHANGED alive

NextExpiryImplicit ==
    \E o \in Objs :
        \/ Expire(o)
        \/ IsExpired(o)
        \/ ObserveExpiry(o)
        \/ DisconnectExpiry(o)
        \/ DestroyImplicit(o)

SpecExpiryImplicit == InitExpiry /\ [][NextExpiryImplicit]_vars

----------------------------------------------------------------------------
(* An attacher and the expirable objects attached to it (SpecAttacher).    *)

\* attacher::operator<<(object)
Attach(x) ==
    /\ token_[x].alive
    /\ Len(token_[x].signal_) < MaxSlots
    /\ ExpiryBecomes(attacher_attach(CurExpiry, x))
    /\ last' = TokenCall("attach", x)
    /\ UNCHANGED alive

\* attacher::operator>>(object)
Detach(x) ==
    /\ token_[x].alive
    /\ ExpiryBecomes(attacher_detach(CurExpiry, x))
    /\ last' = TokenCall("detach", x)
    /\ UNCHANGED alive

NextAttacher ==
    \E o \in Objs :
        \/ Attach(o)
        \/ Detach(o)
        \/ Expire(o)
        \/ ObserveExpiry(o)
        \/ Destroy(o)

SpecAttacher == InitExpiry /\ [][NextAttacher]_vars

----------------------------------------------------------------------------
(* A property, a setter bound to it and its observer facades (SpecFacade). *)

\* property_setter_base::set(value, notify, force) on a setter bound to the
\* property
SetterSet ==
    \E v \in Values, notify \in BOOLEAN, force \in BOOLEAN :
        /\ Becomes(property_setter_base_set(Cur, v, notify, force))
        /\ last' = Call("setter_set", v, notify, force, 0)
        /\ UNCHANGED <<connection_, connections_, alive, toggled, facades,
                 expiry_vars, getter_vars, moved>>

\* property_setter_base::operator=(value)
SetterAssign ==
    \E v \in Values :
        /\ Becomes(property_setter_base_assign(Cur, v))
        /\ last' = Call("setter_set", v, TRUE, FALSE, 0)
        /\ UNCHANGED <<connection_, connections_, alive, toggled, facades,
                 expiry_vars, getter_vars, moved>>

\* read_only_property_base::observer(), the facade kept by the application
ObserverKept ==
    /\ Len(facades) < MaxFacades
    /\ Becomes(Cur)
    /\ facades' = Append(facades, [observer |-> read_only_property_base_observer(Cur),
                                   copied |-> FALSE])
    /\ last' = Call("observer", value_, FALSE, FALSE, Len(facades) + 1)
    /\ UNCHANGED <<connection_, connections_, alive, toggled, expiry_vars, getter_vars, moved>>

\* property_observer(const property_observer&)
ObserverCopy ==
    \E k \in 1..Len(facades) :
        /\ Len(facades) < MaxFacades
        /\ Becomes(Cur)
        /\ facades' = Append(facades, [observer |-> property_observer_copy(facades[k].observer),
                                       copied |-> TRUE])
        /\ last' = Call("observer_copy", value_, FALSE, FALSE, Len(facades) + 1)
        /\ UNCHANGED <<connection_, connections_, alive, toggled, expiry_vars, getter_vars, moved>>

\* property_observer::get(), operator*: last.v is what it returned.
ObserverGet ==
    \E k \in 1..Len(facades) :
        /\ Becomes(Cur)
        /\ last' = Call("observer_get", property_observer_get(Cur, facades[k].observer),
                         FALSE, FALSE, k)
        /\ UNCHANGED <<connection_, connections_, alive, toggled, facades,
                 expiry_vars, getter_vars, moved>>

\* property_observer::observe(slot), operator>>
ObserverObserve ==
    \E k \in 1..Len(facades) :
        /\ Len(slots) < MaxSlots
        /\ Becomes(property_observer_observe(
                Cur, facades[k].observer, CountCallback, "facade"))
        /\ last' = Call("observer_observe", value_, FALSE, FALSE, Len(slots) + 1)
        /\ UNCHANGED <<connection_, connections_, alive, toggled, facades,
                 expiry_vars, getter_vars, moved>>

\* cn::disconnect() on a connection the application keeps, whoever made it.
DisconnectAny ==
    \E k \in 1..Len(slots) :
        /\ Becomes([Cur EXCEPT !.slots = cn_disconnect(@, k)])
        /\ last' = Call("disconnect", value_, FALSE, FALSE, k)
        /\ UNCHANGED <<connection_, connections_, alive, toggled, facades,
                 expiry_vars, getter_vars, moved>>

NextFacade ==
    \/ SetterSet
    \/ SetterAssign
    \/ Notify
    \/ Observe
    \/ ObserverKept
    \/ ObserverCopy
    \/ ObserverGet
    \/ ObserverObserve

SpecFacade == Init /\ [][NextFacade]_vars

\* The same property with every way of reaching it: its own set, the setter,
\* reads, registrations, the connections and the facades (SpecReadOnly).
NextReadOnly ==
    \/ Set
    \/ SetterSet
    \/ SetterAssign
    \/ Notify
    \/ Get
    \/ Observe
    \/ DisconnectAny
    \/ ObserverKept
    \/ ObserverGet
    \/ ObserverObserve

SpecReadOnly == Init /\ [][NextReadOnly]_vars

----------------------------------------------------------------------------
(* A getter, the state its function reads and its facades (SpecGetter).    *)

\* What is recorded of a call on the getter or on a facade: the call, how
\* it ended, the function bound and the counter when it was made; `prior`
\* is what the last get() on the getter before it returned, and `quiet`
\* says that since that get() only the counter was changed.
GetterCall(op, result, id) ==
    [op |-> op, outcome |-> result.outcome, v |-> result.value, id |-> id,
     fn |-> getter_, counter |-> counter,
     prior |-> IF last.op = "get" THEN last.v ELSE last.prior,
     quiet |-> \/ last.op = "get" /\ last.outcome = "returned"
               \/ last.op = "mutate" /\ last.quiet]

GetterBecomes(st) ==
    /\ slots' = st.slots
    /\ log' = st.log
    /\ UNCHANGED <<value_, flag_, connection_, connections_, alive, toggled,
                   expiry_vars, moved>>

InitGetter ==
    /\ value_ = 0
    /\ flag_ = FALSE
    /\ slots = <<>>
    /\ connection_ = 0
    /\ connections_ = <<>>
    /\ alive = {"getter"}
    /\ toggled = "none"
    /\ facades = <<>>
    /\ log = <<>>
    /\ NoExpirables
    /\ getter_ \in GetterFns
    /\ counter = 0
    /\ moved = NotMoved
    /\ last = [op |-> "construct", outcome |-> "returned", v |-> 0, id |-> 0,
               fn |-> getter_, counter |-> counter, prior |-> 0,
               quiet |-> FALSE]

\* getter_base::set(getter)
GetterSet ==
    \E fn \in GetterFns :
        /\ getter_' = getter_base_set(fn)
        /\ GetterBecomes(Cur)
        /\ last' = GetterCall("set", Returned(0), 0)
        /\ UNCHANGED <<counter, facades>>

\* getter_base::get(), operator(), operator*
GetterGet ==
    /\ GetterBecomes(Cur)
    /\ last' = GetterCall("get", getter_base_get(getter_, counter), 0)
    /\ UNCHANGED <<getter_, counter, facades>>

\* The application changes the state the closures read, and tells nobody.
Mutate ==
    \E c \in Values \ {counter} :
        /\ counter' = c
        /\ GetterBecomes(Cur)
        /\ last' = GetterCall("mutate", Returned(0), 0)
        /\ UNCHANGED <<getter_, facades>>

\* getter_base::notify()
GetterNotify ==
    /\ GetterBecomes(getter_base_notify(Cur))
    /\ last' = GetterCall("notify", Returned(0), 0)
    /\ UNCHANGED <<getter_, counter, facades>>

\* getter_base::observe(slot), operator>>
GetterObserve ==
    /\ Len(slots) < MaxSlots
    /\ GetterBecomes([Cur EXCEPT !.slots =
                        signal_base_observe(@, CountCallback, "user")])
    /\ last' = GetterCall("observe", Returned(0), Len(slots) + 1)
    /\ UNCHANGED <<getter_, counter, facades>>

\* getter_base::observer(), the facade kept by the application
GetterObserverKept ==
    /\ Len(facades) < MaxFacades
    /\ GetterBecomes(Cur)
    /\ facades' = Append(facades, [observer |-> getter_base_observer(getter_),
                                   copied |-> FALSE])
    /\ last' = GetterCall("observer", Returned(0), Len(facades) + 1)
    /\ UNCHANGED <<getter_, counter>>

\* getter_observer(), default constructed
GetterObserverDefault ==
    /\ Len(facades) < MaxFacades
    /\ GetterBecomes(Cur)
    /\ facades' = Append(facades, [observer |-> getter_observer_default,
                                   copied |-> FALSE])
    /\ last' = GetterCall("observer_default", Returned(0), Len(facades) + 1)
    /\ UNCHANGED <<getter_, counter>>

\* getter_observer::get(), operator()
GetterObserverGet ==
    \E k \in 1..Len(facades) :
        /\ GetterBecomes(Cur)
        /\ last' = GetterCall("observer_get",
                              getter_observer_get(facades[k].observer, counter), k)
        /\ UNCHANGED <<getter_, counter, facades>>

\* getter_observer::operator bool: last.v is 1 for true, 0 for false.
GetterObserverBool ==
    \E k \in 1..Len(facades) :
        /\ GetterBecomes(Cur)
        /\ last' = GetterCall("observer_bool",
                              Returned(IF getter_observer_bool(facades[k].observer)
                                       THEN 1 ELSE 0), k)
        /\ UNCHANGED <<getter_, counter, facades>>

NextGetter ==
    \/ GetterSet
    \/ GetterGet
    \/ Mutate
    \/ GetterNotify
    \/ GetterObserve
    \/ GetterObserverKept
    \/ GetterObserverDefault
    \/ GetterObserverGet
    \/ GetterObserverBool

SpecGetter == InitGetter /\ [][NextGetter]_vars

----------------------------------------------------------------------------
(* A signal that is destroyed while connections to it are kept             *)
(* (SpecTeardown).                                                         *)

\* signal_base::observe(slot) on the signal while it exists
LiveObserve ==
    /\ "signal" \in alive
    /\ SignalObserve

\* signal_base::notify() on the signal while it exists
LiveNotify ==
    /\ "signal" \in alive
    /\ SignalNotify

\* ~signal_base(): signal_ is destroyed.
SignalDestroy ==
    /\ "signal" \in alive
    /\ Becomes(signal_base_destroy(Cur))
    /\ last' = Call("destroy", value_, FALSE, FALSE, 0)
    /\ alive' = alive \ {"signal"}
    /\ UNCHANGED <<connection_, connections_, toggled, facades,
                 expiry_vars, getter_vars, moved>>

NextTeardown ==
    \/ LiveObserve
    \/ LiveNotify
    \/ SignalDestroy
    \/ DisconnectAny

SpecTeardown == InitSignal /\ [][NextTeardown]_vars

----------------------------------------------------------------------------
(* An attacher that is destroyed before the objects attached to it         *)
(* (SpecAttacherTeardown).                                                 *)

InitAttacher ==
    /\ value_ = 0
    /\ flag_ = FALSE
    /\ slots = <<>>
    /\ connection_ = 0
    /\ connections_ = <<>>
    /\ alive = {"attacher"}
    /\ toggled = "none"
    /\ facades = <<>>
    /\ log = <<>>
    /\ NoExpirables
    /\ NoGetter
    /\ moved = NotMoved
    /\ last = TokenCall("construct", 1)

\* attacher::operator<<(object) while the attacher exists
LiveAttach(x) ==
    /\ "attacher" \in alive
    /\ Attach(x)

\* attacher::operator>>(object) while the attacher exists
LiveDetach(x) ==
    /\ "attacher" \in alive
    /\ Detach(x)

\* ~attacher(): attached_objects_ is destroyed.
AttacherDestroy ==
    /\ "attacher" \in alive
    /\ ExpiryBecomes(attacher_destroy(CurExpiry))
    /\ last' = TokenCall("attacher_destroy", 1)
    /\ alive' = alive \ {"attacher"}

NextAttacherTeardown ==
    \/ AttacherDestroy
    \/ \E o \in Objs :
        \/ LiveAttach(o)
        \/ LiveDetach(o)
        \/ Expire(o)
        \/ ObserveExpiry(o)
        \/ Destroy(o)

SpecAttacherTeardown == InitAttacher /\ [][NextAttacherTeardown]_vars

----------------------------------------------------------------------------
(* A property whose observers write it from inside the dispatch            *)
(* (SpecReentrant).                                                        *)

\* The callbacks that call P.set(c); all of them write the same c.
SetCallback(c) == [kind |-> "set", target |-> c]

\* read_only_property_base::observe(slot) with a callback that calls
\* set(c) on the property, c being the one value such callbacks write.
ObserveSetter ==
    \E c \in Values :
        /\ Len(slots) < MaxSlots
        /\ \A k \in 1..Len(slots) :
                slots[k].slot.kind = "set" => slots[k].slot.target = c
        /\ Becomes([Cur EXCEPT !.slots =
                        signal_base_observe(@, SetCallback(c), "user")])
        /\ last' = Call("observe", value_, FALSE, FALSE, Len(slots) + 1)
        /\ UNCHANGED <<connection_, connections_, alive, toggled, facades,
                 expiry_vars, getter_vars, moved>>

NextReentrant ==
    \/ Set
    \/ Notify
    \/ Observe
    \/ ObserveSetter
    \/ Disconnect

SpecReentrant == Init /\ [][NextReentrant]_vars

----------------------------------------------------------------------------
(* What a dispatch delivers.                                               *)

Invoked(l) == {l[p].id : p \in DOMAIN l}

InOrder(l) == \A p, q \in DOMAIN l : p < q => l[p].id < l[q].id

\* The registrations a callback of kind "disc" that ran in l disconnects.
Dropped(s, l) ==
    {s[l[p].id].slot.target : p \in {q \in DOMAIN l : s[l[q].id].slot.kind = "disc"}}

\* A dispatch over the list `before` that left `after` and invoked l:
\* only registrations that were connected are invoked, in registration
\* order and at most once each, every one that is still connected at the
\* end was invoked, and all of them when no callback that ran disconnects.
Delivered(before, after, l) ==
    /\ InOrder(l)
    /\ Invoked(l) \subseteq ActiveIds(before)
    /\ ActiveIds(after) \subseteq Invoked(l)
    /\ Dropped(before, l) = {} => Invoked(l) = ActiveIds(before)

----------------------------------------------------------------------------
(* The property's set and notify (Spec).                                   *)

\* C1: set(v, notify=true, force=false) with v equal to the current value
\* is a complete no-op: the value and the registrations stay as they are
\* and no observer is invoked.
C1_EqualSetIsNoOp ==
    [][(/\ last'.op = "set"
        /\ last'.v = value_
        /\ last'.notify
        /\ ~last'.force)
          => (value_' = value_ /\ slots' = slots /\ log' = <<>>)]_vars

C1_Witness ==
    /\ last.op = "set"
    /\ last.v = last.old
    /\ last.notify
    /\ ~last.force
    /\ Cardinality(last.active) >= 2
    /\ log = <<>>

\* C2: set(c, notify=true, force=true) with c the current value leaves the
\* value equal to c and invokes each active observer exactly once.
C2_ForcedSetNotifies ==
    [][(/\ last'.op = "set"
        /\ last'.v = value_
        /\ last'.notify
        /\ last'.force)
          => /\ value_' = value_
             /\ slots' = slots
             /\ Invoked(log') = ActiveIds(slots)
             /\ Len(log') = Cardinality(ActiveIds(slots))]_vars

C2_Witness ==
    /\ last.op = "set"
    /\ last.v = last.old
    /\ last.notify
    /\ last.force
    /\ Cardinality(last.active) >= 2
    /\ Invoked(log) = last.active
    /\ Len(log) = Cardinality(last.active)
    /\ value_ = last.old

\* C3: set(v, notify=false) with v different from the current value stores
\* v and invokes no observer, whatever force is.
C3_SilentSetStores ==
    [][(/\ last'.op = "set"
        /\ last'.v # value_
        /\ ~last'.notify)
          => (value_' = last'.v /\ slots' = slots /\ log' = <<>>)]_vars

C3_Witness ==
    /\ last.op = "set"
    /\ last.v # last.old
    /\ ~last.notify
    /\ last.force
    /\ last.active # {}
    /\ value_ = last.v
    /\ log = <<>>

\* C4: no observer has been invoked after construction, and a call invokes
\* observers only if it is notify() or a set with notify=true that is not
\* suppressed (its value differs from the current one, or force is true);
\* get(), observe(), observer(), disconnect() and the other sets invoke none.
C4_OnlySetAndNotifyFire ==
    /\ log = <<>>
    /\ [][log' # <<>>
            => \/ last'.op = "notify"
               \/ /\ last'.op = "set"
                  /\ last'.notify
                  /\ (last'.v # value_ \/ last'.force)]_vars

C4_Witness ==
    /\ last.op \in {"get", "observe", "observer", "disconnect"}
    /\ Cardinality(ActiveIds(slots)) >= 2
    /\ log = <<>>

----------------------------------------------------------------------------
(* Connections (Spec).                                                     *)

\* C5: a registration that is disconnected stays disconnected and is not
\* invoked by any later notify() or set(), and disconnect() changes that
\* one registration only: every other one stays as it was.
C5_DisconnectedNeverInvoked ==
    [][/\ \A i \in 1..Len(slots) :
            ~slots[i].connected
                => (~slots'[i].connected /\ i \notin Invoked(log'))
       /\ last'.op = "disconnect"
            => /\ Len(slots') = Len(slots)
               /\ ~slots'[last'.id].connected
               /\ \A j \in 1..Len(slots) :
                    j # last'.id => slots'[j] = slots[j]]_vars

C5_Witness ==
    /\ last.op \in {"notify", "set"}
    /\ Len(slots) = MaxSlots
    /\ \E i \in 1..Len(slots) :
        /\ i \notin last.active
        /\ \E j, k \in last.active : j < i /\ i < k
    /\ Invoked(log) = last.active

\* C6: disconnect() on a connection that is already disconnected changes
\* nothing: the state is the one the first disconnect() left.
C6_DisconnectIdempotent ==
    [][(last'.op = "disconnect" /\ ~slots[last'.id].connected)
          => (slots' = slots /\ value_' = value_ /\ log' = <<>>)]_vars

C6_Witness ==
    /\ last.op = "disconnect"
    /\ last.id \notin last.active
    /\ last.active # {}
    /\ ActiveIds(slots) = last.active

----------------------------------------------------------------------------
(* Dispatch (SpecSignal).                                                  *)

\* C7: one notify() invokes the registrations that are active at their
\* turn exactly once each, in the order in which they were registered.
C7_NotifyInRegistrationOrder ==
    [][last'.op = "notify" => Delivered(slots, slots', log')]_vars

C7_Witness ==
    /\ last.op = "notify"
    /\ Len(log) = MaxSlots
    /\ \A p \in DOMAIN log : log[p].id = p

\* C8: when callbacks of a dispatch disconnect registrations of the same
\* channel, the list keeps its registrations (only the connected marks of
\* the registrations they name are cleared), no registration is invoked
\* twice, and one disconnected by a callback is not invoked afterwards in
\* that dispatch.
C8_DisconnectDuringDispatch ==
    [][last'.op = "notify"
          => /\ Len(slots') = Len(slots)
             /\ \A i \in 1..Len(slots) :
                  /\ slots'[i].slot = slots[i].slot
                  /\ slots'[i].connected => slots[i].connected
                  /\ (slots[i].connected /\ ~slots'[i].connected)
                        => i \in Dropped(slots, log')
             /\ \A p, q \in DOMAIN log' :
                  /\ p # q => log'[p].id # log'[q].id
                  /\ (/\ p < q
                      /\ slots[log'[p].id].slot.kind = "disc")
                        => log'[q].id # slots[log'[p].id].slot.target]_vars

C8_Witness ==
    /\ last.op = "notify"
    /\ \E p \in DOMAIN log :
        LET cb == slots[log[p].id].slot
        IN  /\ cb.kind = "disc"
            /\ cb.target > log[p].id
            /\ cb.target \in last.active
            /\ cb.target \notin Invoked(log)
    /\ \E p \in DOMAIN log :
        LET cb == slots[log[p].id].slot
        IN  cb.kind = "disc" /\ cb.target = log[p].id
    /\ Len(log) >= 2

----------------------------------------------------------------------------
(* Scoped connections (SpecScoped).                                        *)

\* A registration whose connection a scoped holder took is connected only
\* while that holder is alive and still holds it.
HeldWhileConnected ==
    \A i \in 1..Len(slots) :
        slots[i].connected
            => /\ slots[i].owner = "value_cn"
                    => ("value_cn" \in alive /\ connection_ = i)
               /\ slots[i].owner = "store"
                    => ("store" \in alive /\ i \in Range(connections_))

\* C9: a scoped connection holds at most one registration: of the
\* registrations a value_cn made at most one is connected, the one its
\* scoped_cn holds, so connect() disconnects the one held before;
\* destroying the holder disconnects what it holds, and changes nothing
\* when it holds nothing.
C9_ScopedHoldsOne ==
    /\ []HeldWhileConnected
    /\ [][/\ last'.op = "value_cn_connect"
                => /\ slots'[connection_'].connected
                   /\ connection_ # 0 => ~slots'[connection_].connected
          /\ last'.op \in {"value_cn_destroy", "store_destroy"}
                => /\ Len(slots') = Len(slots)
                   /\ \A i \in 1..Len(slots) :
                        IF \/ last'.op = "value_cn_destroy" /\ i = connection_
                           \/ last'.op = "store_destroy"
                                /\ i \in Range(connections_)
                        THEN ~slots'[i].connected
                        ELSE slots'[i] = slots[i]]_vars

C9_Witness ==
    /\ last.op = "value_cn_connect"
    /\ connection_ = last.id
    /\ slots[last.id].connected
    /\ \E i \in last.active :
        /\ slots[i].owner = "value_cn"
        /\ ~slots[i].connected
    /\ \E j \in last.active :
        /\ slots[j].owner = "store"
        /\ slots[j].connected

----------------------------------------------------------------------------
(* The one-shot latch (SpecOneShot).                                       *)

\* C10: the first set or assignment of a one_shot_property_base stores its
\* value a and sets the latch; from then on the value stays a, and every
\* set or assignment, whatever its value and flags, changes nothing and
\* invokes no observer.
C10_OneShotWritesOnce ==
    [][/\ flag_
            => /\ flag_'
               /\ value_' = value_
               /\ last'.op = "one_shot_set"
                    => (slots' = slots /\ log' = <<>>)
       /\ (~flag_ /\ last'.op = "one_shot_set")
            => (flag_' /\ value_' = last'.v)]_vars

C10_Witness ==
    /\ flag_
    /\ last.op = "one_shot_set"
    /\ last.v # value_
    /\ last.notify
    /\ last.force
    /\ Cardinality(last.active) >= 2
    /\ log = <<>>

\* C11: the first set(v0) of a one_shot_property_base constructed with v0,
\* with force=false, invokes no observer and leaves the value v0, and it
\* still sets the latch, so that the sets that follow are ignored.
C11_SuppressedFirstSetLatches ==
    [][(/\ ~flag_
        /\ last'.op = "one_shot_set"
        /\ last'.v = value_
        /\ ~last'.force)
          => (flag_' /\ value_' = value_ /\ slots' = slots /\ log' = <<>>)]_vars

C11_Witness ==
    /\ flag_
    /\ last.op = "one_shot_set"
    /\ ~last.latched
    /\ last.v = last.old
    /\ last.notify
    /\ ~last.force
    /\ last.active # {}
    /\ log = <<>>
    /\ value_ = last.old

----------------------------------------------------------------------------
(* Expiry (SpecExpiry, SpecExpiryImplicit).                                *)

\* The slots of the token of o that a call ran, in the order it ran them.
SlotEvents(t, o) == SelectSeq(t, LAMBDA e : e.what = "slot" /\ e.obj = o)

\* A dispatch that ran every registration of `active` once, in
\* registration order, and nothing else.
RanEach(t, o, active) ==
    /\ InOrder(SlotEvents(t, o))
    /\ Invoked(SlotEvents(t, o)) = active
    /\ Len(SlotEvents(t, o)) = Cardinality(active)

\* C12: however many times expire() is called, the first call moves the
\* token from alive to expired and invokes every observer connected then
\* exactly once; every later call invokes nothing and changes nothing, and
\* an expired token never becomes alive again.
C12_ExpireOnce ==
    [][\A o \in Objs :
        /\ token_[o].expired_ => token_'[o].expired_
        /\ (last'.op = "expire" /\ last'.obj = o)
             => IF token_[o].expired_
                THEN trace' = <<>> /\ token_' = token_
                ELSE /\ token_'[o].expired_
                     /\ RanEach(trace', o, ActiveIds(token_[o].signal_))]_vars

C12_Witness ==
    /\ last.op = "expire"
    /\ last.expired
    /\ Cardinality(last.active) >= 2
    /\ \A k \in last.active : token_[last.obj].signal_[k].owner = "user"
    /\ trace = <<>>

\* C13: an observer registered on a token that is already expired is never
\* invoked: not by the registration, not by a later expire(), not by the
\* token's destruction.
C13_LateObserverNeverInvoked ==
    [][\A p \in DOMAIN trace' :
        trace'[p].what = "slot"
          => token_'[trace'[p].obj].signal_[trace'[p].id].owner # "late"]_vars

C13_Witness ==
    /\ last.op = "destroy"
    /\ last.expired
    /\ \E k \in last.active : token_[last.obj].signal_[k].owner = "late"
    /\ trace = <<>>

\* C14: destroying a token that is not expired moves it to expired and
\* invokes every observer connected then exactly once.
C14_DestructionExpires ==
    [][\A o \in Objs :
        (last'.op = "destroy" /\ last'.obj = o /\ ~token_[o].expired_)
          => /\ token_'[o].expired_
             /\ RanEach(trace', o, ActiveIds(token_[o].signal_))]_vars

\* A token destroyed without ever expiring, its observers never invoked.
C14_Witness ==
    /\ last.op = "destroy"
    /\ ~last.expired
    /\ last.active # {}
    /\ ~token_[last.obj].alive
    /\ ~token_[last.obj].expired_
    /\ trace = <<>>

\* C15: expire() on an expirable invokes its observers in registration
\* order, each exactly once, and destroying the expirable afterwards invokes
\* none of them again.
C15_ExpireThenDestroy ==
    [][\A o \in Objs :
        /\ (last'.op = "expire" /\ last'.obj = o /\ ~token_[o].expired_)
             => /\ RanEach(trace', o, ActiveIds(token_[o].signal_))
                /\ \A p \in DOMAIN trace' : trace'[p].expired
        /\ (last'.op = "destroy" /\ last'.obj = o /\ token_[o].expired_)
             => trace' = <<>>]_vars

C15_Witness ==
    /\ last.op = "destroy"
    /\ last.expired
    /\ {1, 2} \subseteq last.active
    /\ token_[last.obj].signal_[1].owner = "user"
    /\ token_[last.obj].signal_[2].owner = "user"
    /\ trace = <<>>

----------------------------------------------------------------------------
(* The attacher registry (SpecAttacher).                                   *)

\* The owner's update() calls of a call, with the tag `what`, for object x.
HookEvents(t, what, x) == SelectSeq(t, LAMBDA e : e.what = what /\ e.obj = x)

\* C16: attaching an object that is neither expired nor attached calls the
\* owner's attach hook exactly once with it and leaves its key in the
\* registry; when the object then expires, with no detach in between, the
\* detach hook is called exactly once with it and its key is gone.
C16_AttachThenExpire ==
    [][\A x \in Objs :
        /\ (/\ last'.op = "attach"
            /\ last'.obj = x
            /\ ~token_[x].expired_
            /\ attached_objects_[hash(x)] = 0)
             => /\ Len(HookEvents(trace', "attach", x)) = 1
                /\ Len(trace') = 1
                /\ attached_objects_'[hash(x)] # 0
        /\ (/\ last'.op = "expire"
            /\ last'.obj = x
            /\ ~token_[x].expired_
            /\ attached_objects_[hash(x)] # 0)
             => /\ Len(HookEvents(trace', "detach", x)) = 1
                /\ HookEvents(trace', "attach", x) = <<>>
                /\ attached_objects_'[hash(x)] = 0]_vars

C16_Witness ==
    /\ last.op = "expire"
    /\ ~last.expired
    /\ last.attached # 0
    /\ Len(HookEvents(trace, "detach", last.obj)) = 1
    /\ attached_objects_[hash(last.obj)] = 0

\* The only connected on_expired registration on a token is the one the
\* registry holds for the object.
SubscribedOnlyWhileAttached ==
    \A x \in Objs : \A k \in 1..Len(token_[x].signal_) :
        (token_[x].signal_[k].connected /\ token_[x].signal_[k].slot.kind = "detach")
          => attached_objects_[hash(x)] = k

\* C17: detach of an attached object calls the detach hook once, removes
\* the key and releases the expiry subscription, and the expiry of an
\* object that is not attached calls no detach hook: over attach, detach,
\* expire the detach hook is called once.
C17_DetachReleasesSubscription ==
    /\ []SubscribedOnlyWhileAttached
    /\ [][\A x \in Objs :
            /\ (/\ last'.op = "detach"
                /\ last'.obj = x
                /\ attached_objects_[hash(x)] # 0)
                 => /\ Len(HookEvents(trace', "detach", x)) = 1
                    /\ Len(trace') = 1
                    /\ attached_objects_'[hash(x)] = 0
                    /\ ~token_'[x].signal_[attached_objects_[hash(x)]].connected
            /\ (/\ last'.op = "expire"
                /\ last'.obj = x
                /\ attached_objects_[hash(x)] = 0)
                 => HookEvents(trace', "detach", x) = <<>>]_vars

C17_Witness ==
    /\ last.op = "expire"
    /\ ~last.expired
    /\ last.attached = 0
    /\ token_[last.obj].expired_
    /\ \E k \in 1..Len(token_[last.obj].signal_) :
            token_[last.obj].signal_[k].slot.kind = "detach"
    /\ HookEvents(trace, "detach", last.obj) = <<>>

----------------------------------------------------------------------------
(* The value connection's toggle (SpecScoped).                             *)

\* The registrations the value_cn made that are connected, and the times a
\* call invoked the value_cn's callback.
ValueCnActive(s) == {i \in ActiveIds(s) : s[i].owner = "value_cn"}

ValueCnInvoked(s, l) == Cardinality({p \in DOMAIN l : s[l[p].id].owner = "value_cn"})

\* C18: whatever connect() and disconnect() calls were made, the value_cn
\* has one connected registration when it was constructed connected or
\* connect() was its last toggle, a second connect() in a row included, and
\* none otherwise; a notification of the producer invokes its callback that
\* many times.
C18_ValueCnOneRegistration ==
    /\ [](Cardinality(ValueCnActive(slots))
            = IF toggled \in {"connect", "connect_again"} THEN 1 ELSE 0)
    /\ [][last'.op = "notify"
            => ValueCnInvoked(slots, log')
                 = IF toggled \in {"connect", "connect_again"} THEN 1 ELSE 0]_vars

C18_Witness ==
    /\ last.op = "notify"
    /\ toggled = "connect_again"
    /\ Cardinality({i \in 1..Len(slots) : slots[i].owner = "value_cn"}) >= 2
    /\ ValueCnInvoked(slots, log) = 1

----------------------------------------------------------------------------
(* Observer facades (SpecFacade) and the ways to the value (SpecReadOnly). *)

\* The call being made notifies: notify(), or a set that stores and was
\* asked to notify.
SetterFires ==
    \/ last'.op = "notify"
    \/ /\ last'.op = "setter_set"
       /\ last'.notify
       /\ (last'.v # value_ \/ last'.force)

\* C19: every property_observer made by observer(), and every copy of one,
\* reads the property's current value, whatever sets were made; a callback
\* registered through one is appended to the property's slot list as a
\* direct registration is, and a notification invokes the connected
\* registrations alike, facade-made or direct, in registration order.
C19_FacadeIsLiveView ==
    /\ [](\A k \in DOMAIN facades :
            property_observer_get(Cur, facades[k].observer)
                = read_only_property_base_get(Cur))
    /\ [][/\ last'.op = "observer_get" => last'.v = value_'
          /\ last'.op = "observer_observe"
               => /\ slots' = signal_base_observe(slots, CountCallback, "facade")
                  /\ value_' = value_
                  /\ log' = <<>>
          /\ last'.op \in {"notify", "setter_set"}
               => /\ InOrder(log')
                  /\ Invoked(log') = IF SetterFires THEN ActiveIds(slots) ELSE {}
                  /\ \A p \in DOMAIN log' : log'[p].seen = value_']_vars

C19_Witness ==
    /\ last.op = "setter_set"
    /\ value_ # last.old
    /\ \E i, j \in Invoked(log) :
            slots[i].owner = "facade" /\ slots[j].owner = "user"
    /\ \E k \in DOMAIN facades :
            /\ facades[k].copied
            /\ property_observer_get(Cur, facades[k].observer) = value_

\* C20: the stored value changes only in a set or an assignment made
\* through the setter or the property's own set; get, notify, observe,
\* observer(), disconnecting a connection and every operation on a facade
\* leave it as it was.
C20_ValueChangesOnlyBySet ==
    [][/\ value_' # value_ => last'.op \in {"set", "setter_set"}
       /\ last'.op \in {"get", "notify", "observe", "disconnect",
                        "observer", "observer_get", "observer_observe"}
            => value_' = value_]_vars

C20_Witness ==
    /\ last.op = "notify"
    /\ value_ = last.old
    /\ \E i, j \in Invoked(log) :
            slots[i].owner = "facade" /\ slots[j].owner = "user"
    /\ facades # <<>>

----------------------------------------------------------------------------
(* The getter (SpecGetter).                                                *)

\* C21: get() calls the bound function on every call: what it returns is
\* computed from the external state as it is at that call, so a get() made
\* after the state changed returns the new result with no notify() between.
C21_GetterNeverCaches ==
    [][(last'.op = "get" /\ getter_.bound)
          => /\ last'.outcome = "returned"
             /\ last'.v = (counter + getter_.add) % (MaxVal + 1)]_vars

C21_Witness ==
    /\ last.op = "get"
    /\ last.outcome = "returned"
    /\ last.quiet
    /\ last.prior # last.v
    /\ last.v = (counter + getter_.add) % (MaxVal + 1)

\* C22: get() on a getter or on a getter_observer whose function is empty
\* throws and returns no value, and the facade's boolean conversion is
\* false exactly when its function is empty.
C22_UnboundGetFails ==
    [][/\ (last'.op = "get" /\ ~getter_.bound)
            => last'.outcome = "bad_function_call"
       /\ \A k \in 1..Len(facades) :
            /\ (last'.op = "observer_get" /\ last'.id = k)
                 => (last'.outcome = "bad_function_call"
                        <=> ~facades[k].observer.getter_.bound)
            /\ (last'.op = "observer_bool" /\ last'.id = k)
                 => (last'.v = 0 <=> ~facades[k].observer.getter_.bound)]_vars

C22_Witness ==
    /\ last.op = "observer_get"
    /\ last.outcome = "bad_function_call"
    /\ ~facades[last.id].observer.getter_.bound
    /\ facades[last.id].observer.connector_ = "getter.signal_"

----------------------------------------------------------------------------
(* A destroyed channel (SpecTeardown).                                     *)

\* C23: the destruction of a channel invokes no callback and leaves every
\* registration disconnected; from then on no callback is invoked, and
\* disconnect() on a connection obtained from the channel changes nothing.
C23_DestroyedChannelIsInert ==
    /\ []("signal" \notin alive => ActiveIds(slots) = {})
    /\ [][/\ last'.op = "destroy"
               => (log' = <<>> /\ ActiveIds(slots') = {})
          /\ "signal" \notin alive
               => (log' = <<>> /\ slots' = slots /\ alive' = alive)]_vars

C23_Witness ==
    /\ "signal" \notin alive
    /\ last.op = "disconnect"
    /\ last.active = {}
    /\ last.id \in 1..Len(slots)
    /\ log = <<>>

----------------------------------------------------------------------------
(* A destroyed attacher (SpecAttacherTeardown).                            *)

\* The calls of the owner's update() that a call made.
Hooks(t) == SelectSeq(t, LAMBDA e : e.what \in {"attach", "detach"})

\* C24: destroying the attacher calls no hook and disconnects every expiry
\* subscription its registry holds; afterwards the expiry or destruction of
\* an object that was attached calls neither hook.
C24_DeadAttacherHearsNothing ==
    [][/\ last'.op = "attacher_destroy"
            => /\ Hooks(trace') = <<>>
               /\ \A x \in Objs : \A k \in 1..Len(token_'[x].signal_) :
                    token_'[x].signal_[k].slot.kind = "detach"
                        => ~token_'[x].signal_[k].connected
       /\ "attacher" \notin alive
            => (Hooks(trace') = <<>> /\ attached_objects_' = attached_objects_)]_vars

C24_Witness ==
    /\ "attacher" \notin alive
    /\ last.op = "expire"
    /\ ~last.expired
    /\ token_[last.obj].expired_
    /\ \E k \in 1..Len(token_[last.obj].signal_) :
            token_[last.obj].signal_[k].owner = "destroyed attacher"
    /\ Hooks(trace) = <<>>

----------------------------------------------------------------------------
(* A property and the property move-constructed from it (SpecMove, and     *)
(* SpecMoveDefault for the Property whose move constructor is defaulted).  *)

\* What is recorded of a call: the call, how it ended, and the values and
\* the connected registrations of both objects when it was made.
MoveCall(op, v, notify, force, ended) ==
    [op |-> op, v |-> v, notify |-> notify, force |-> force, ended |-> ended,
     old |-> moved.value_, active |-> ActiveIds(moved.signal_),
     rhs_old |-> value_, rhs_active |-> ActiveIds(slots)]

\* The state a call leaves behind; a program that crashed has no objects.
MoveBecomes(w) ==
    /\ value_' = w.rhs.value_
    /\ slots' = w.rhs.slots
    /\ log' = w.rhs.log
    /\ moved' = w.this
    /\ alive' = IF w.ended = "crashed" THEN {}
                 ELSE IF w.this.made THEN {"property", "moved"}
                 ELSE {"property"}
    /\ UNCHANGED <<flag_, connection_, connections_, toggled, facades,
                   expiry_vars, getter_vars>>

InitMove ==
    /\ value_ \in Values
    /\ flag_ = FALSE
    /\ slots = <<>>
    /\ connection_ = 0
    /\ connections_ = <<>>
    /\ alive = {"property"}
    /\ toggled = "none"
    /\ facades = <<>>
    /\ log = <<>>
    /\ NoExpirables
    /\ NoGetter
    /\ moved = NotMoved
    /\ last = MoveCall("construct", value_, FALSE, FALSE, "returned")

\* property_base::set(value, notify, force) on the property, before the move
SourceSet ==
    \E v \in Values, notify \in BOOLEAN, force \in BOOLEAN :
        /\ alive = {"property"}
        /\ MoveBecomes([CurMove EXCEPT
                            !.rhs = property_base_set(Cur, v, notify, force)])
        /\ last' = MoveCall("set", v, notify, force, "returned")

\* read_only_property_base::observe(slot) on the property, before the move
SourceObserve ==
    /\ alive = {"property"}
    /\ Len(slots) < MaxSlots
    /\ MoveBecomes([CurMove EXCEPT
                        !.rhs.slots = signal_base_observe(@, CountCallback, "user")])
    /\ last' = MoveCall("observe", value_, FALSE, FALSE, "returned")

\* property_base(property_base&&)
MoveConstruct ==
    /\ alive = {"property"}
    /\ MoveBecomes(property_base_move(CurMove))
    /\ last' = MoveCall("move", value_, FALSE, FALSE, "returned")

\* property_base::set(value, notify, force) on the object constructed
MovedSet ==
    \E v \in Values, notify \in BOOLEAN, force \in BOOLEAN,
       ub \in {"returned", "crashed"} :
        LET w == moved_set(CurMove, v, notify, force, ub)
        IN  /\ "moved" \in alive
            /\ MoveBecomes(w)
            /\ last' = MoveCall("moved_set", v, notify, force, w.ended)

\* property_base::operator=(value) on the object constructed
MovedAssign ==
    \E v \in Values, ub \in {"returned", "crashed"} :
        LET w == moved_assign(CurMove, v, ub)
        IN  /\ "moved" \in alive
            /\ MoveBecomes(w)
            /\ last' = MoveCall("moved_assign", v, TRUE, FALSE, w.ended)

\* read_only_property_base::observe(slot) on the object constructed
MovedObserve ==
    /\ "moved" \in alive
    /\ Len(moved.signal_) < MaxSlots
    /\ MoveBecomes([CurMove EXCEPT
                        !.this.signal_ = signal_base_observe(@, CountCallback, "user")])
    /\ last' = MoveCall("moved_observe", value_, FALSE, FALSE, "returned")

NextMove ==
    \/ SourceSet
    \/ SourceObserve
    \/ MoveConstruct
    \/ MovedSet
    \/ MovedAssign
    \/ MovedObserve

SpecMove == InitMove /\ [][NextMove]_vars

\* Property(Property&&) = default
MoveConstructDefault ==
    /\ alive = {"property"}
    /\ MoveBecomes(Property_move_default(CurMove))
    /\ last' = MoveCall("move", value_, FALSE, FALSE, "returned")

NextMoveDefault ==
    \/ SourceSet
    \/ SourceObserve
    \/ MoveConstructDefault
    \/ MovedSet
    \/ MovedAssign
    \/ MovedObserve

SpecMoveDefault == InitMove /\ [][NextMoveDefault]_vars

----------------------------------------------------------------------------
(* Facades of a getter whose function is replaced (SpecGetterObserver).    *)

\* getter_observer::observe(slot), operator>>
GetterObserverObserve ==
    \E k \in 1..Len(facades) :
        /\ Len(slots) < MaxSlots
        /\ GetterBecomes(getter_observer_observe(
                Cur, facades[k].observer, CountCallback, "facade"))
        /\ last' = GetterCall(
                "observer_observe",
                IF facades[k].observer.connector_ = "empty"
                THEN Threw("bad_function_call") ELSE Returned(0), k)
        /\ UNCHANGED <<getter_, counter, facades>>

NextGetterObserver ==
    \/ GetterSet
    \/ GetterGet
    \/ GetterNotify
    \/ GetterObserverKept
    \/ GetterObserverGet
    \/ GetterObserverBool
    \/ GetterObserverObserve

SpecGetterObserver == InitGetter /\ [][NextGetterObserver]_vars

----------------------------------------------------------------------------
(* Objects attached when they have expired, or expired by the attach hook  *)
(* (SpecAttachExpired).                                                    *)

\* attacher::operator<<(object) of an owner whose update() expires the
\* object it is given with the attach tag
AttachExpiring(x) ==
    /\ "attacher" \in alive
    /\ token_[x].alive
    /\ Len(token_[x].signal_) < MaxSlots
    /\ ExpiryBecomes(attacher_attach([CurExpiry EXCEPT !.on_attach = "expire"], x))
    /\ last' = TokenCall("attach", x)
    /\ UNCHANGED alive

NextAttachExpired ==
    \/ AttacherDestroy
    \/ \E o \in Objs :
        \/ LiveAttach(o)
        \/ AttachExpiring(o)
        \/ LiveDetach(o)
        \/ Expire(o)
        \/ Destroy(o)

SpecAttachExpired == InitAttacher /\ [][NextAttachExpired]_vars

----------------------------------------------------------------------------
(* Expiry observers that call expire() (SpecExpiryReentrant).              *)

\* expirable::observe_expiry(slot) on an object that has not expired, with
\* a slot that counts or one that calls expire() on the object x
ObserveExpirer(o) ==
    \E cb \in {CountExpiry} \cup {ExpireCallback(x) : x \in Objs} :
        /\ token_[o].alive
        /\ ~token_[o].expired_
        /\ Len(token_[o].signal_) < MaxSlots
        /\ ExpiryBecomes(expirable_observe_expiry(CurExpiry, o, cb, "user"))
        /\ last' = TokenCall("observe_expiry", o)
        /\ UNCHANGED alive

NextExpiryReentrant ==
    \E o \in Objs :
        \/ Expire(o)
        \/ IsExpired(o)
        \/ ObserveExpiry(o)
        \/ ObserveExpirer(o)

SpecExpiryReentrant == InitExpiry /\ [][NextExpiryReentrant]_vars

----------------------------------------------------------------------------
(* Writes from inside a dispatch (SpecReentrant).                          *)

\* The call being made is a set that stores its value and notifies.
StoresAndNotifies ==
    /\ last'.op = "set"
    /\ last'.notify
    /\ (last'.v # value_ \/ last'.force)

\* Entry p of the log was made by a callback that calls set(c).
IsSetter(s, l, p) == s[l[p].id].slot.kind = "set"

\* C25: a set that stores v and notifies stores before it fires: the first
\* observer it invokes sees v, and so does every later one of that
\* dispatch unless a callback that ran before it wrote another value.
C25_StoredBeforeFired ==
    [][StoresAndNotifies /\ log' # <<>>
          => /\ log'[1].seen = last'.v
             /\ log'[1].depth = 1
             /\ \A p \in DOMAIN log' :
                    \/ log'[p].seen = last'.v
                    \/ \E q \in 1..(p - 1) :
                            /\ IsSetter(slots, log', q)
                            /\ slots[log'[q].id].slot.target # last'.v]_vars

C25_Witness ==
    /\ last.op = "set"
    /\ last.notify
    /\ last.v # last.old
    /\ Len(log) >= 2
    /\ \A p \in DOMAIN log : log[p].seen = last.v /\ log[p].depth = 1
    /\ value_ = last.v

\* C26: with observers that call set(c) for one fixed c, a set(v) made by
\* the application ends: dispatches nest at most two deep, because the
\* set(c) made while the value is c returns at once, and when such an
\* observer ran the property ends with the value c.
C26_ReentrantSetTerminates ==
    [][last'.op = "set"
          => /\ \A p \in DOMAIN log' : log'[p].depth <= 2
             /\ \A p \in DOMAIN log' :
                    IsSetter(slots, log', p)
                        => value_' = slots[log'[p].id].slot.target]_vars

C26_Witness ==
    /\ last.op = "set"
    /\ last.v # value_
    /\ \E p \in DOMAIN log : log[p].depth = 2
    /\ \E p \in DOMAIN log :
            IsSetter(slots, log, p) /\ slots[log[p].id].slot.target = value_

----------------------------------------------------------------------------
(* Expiry from inside an expiry dispatch (SpecExpiryReentrant).            *)

\* C27: expire() sets the flag before it fires: every expiry observer runs
\* with the flag of its token set, and an expire() made by an observer of
\* the token being expired starts no dispatch, so each connected observer
\* of that token runs once, in the one dispatch of the application's call.
C27_ExpiredBeforeFired ==
    [][\A o \in Objs :
        (last'.op = "expire" /\ last'.obj = o /\ ~token_[o].expired_)
            => /\ \A p \in DOMAIN trace' :
                    trace'[p].what = "slot" => trace'[p].expired
               /\ \A p \in DOMAIN trace' :
                    (trace'[p].what = "slot" /\ trace'[p].obj = o)
                        => trace'[p].depth = 1
               /\ RanEach(trace', o, last'.active)
               /\ token_'[o].expired_]_vars

C27_Witness ==
    /\ last.op = "expire"
    /\ ~last.expired
    /\ \E p, q \in DOMAIN trace :
        /\ p < q
        /\ trace[p].what = "slot" /\ trace[p].obj = last.obj
        /\ token_[last.obj].signal_[trace[p].id].slot = ExpireCallback(last.obj)
        /\ trace[q].what = "slot" /\ trace[q].obj = last.obj
        /\ trace[q].expired /\ trace[q].depth = 1

----------------------------------------------------------------------------
(* Attaching twice, detaching what is not attached (SpecAttacher).         *)

\* The connected registrations of the attacher on the token of x.
Subscriptions(tk, x) ==
    {k \in 1..Len(tk[x].signal_) :
        tk[x].signal_[k].connected /\ tk[x].signal_[k].slot = OnExpired(x)}

\* C28: attaching an object that is attached calls the attach hook again,
\* and no detach hook; the entry of its key takes the new expiry
\* subscription and the one it held is disconnected, so one subscription
\* is left, and the expiry that follows calls the detach hook once.
C28_ReattachReplaces ==
    [][\A x \in Objs :
        /\ (/\ last'.op = "attach"
            /\ last'.obj = x
            /\ attached_objects_[hash(x)] # 0)
             => /\ Len(HookEvents(trace', "attach", x)) = 1
                /\ Len(Hooks(trace')) = 1
                /\ ~token_'[x].signal_[attached_objects_[hash(x)]].connected
                /\ attached_objects_'[hash(x)] = Len(token_[x].signal_) + 1
                /\ Subscriptions(token_', x) = {attached_objects_'[hash(x)]}
        /\ (/\ last'.op = "expire"
            /\ last'.obj = x
            /\ ~token_[x].expired_
            /\ attached_objects_[hash(x)] # 0)
             => /\ Len(HookEvents(trace', "detach", x)) = 1
                /\ attached_objects_'[hash(x)] = 0]_vars

C28_Witness ==
    /\ last.op = "attach"
    /\ last.attached # 0
    /\ ~last.expired
    /\ last.attached \in last.active
    /\ ~token_[last.obj].signal_[last.attached].connected
    /\ attached_objects_[hash(last.obj)] > last.attached
    /\ Subscriptions(token_, last.obj) = {attached_objects_[hash(last.obj)]}
    /\ Len(HookEvents(trace, "attach", last.obj)) = 1

\* C29: detach does not look the object up: on an object that is not
\* attached it changes neither the registry nor any subscription and calls
\* the detach hook once, each time it is called.
C29_DetachAlwaysCallsHook ==
    [][\A x \in Objs :
        (/\ last'.op = "detach"
         /\ last'.obj = x
         /\ attached_objects_[hash(x)] = 0)
            => /\ attached_objects_' = attached_objects_
               /\ token_' = token_
               /\ Len(trace') = 1
               /\ trace'[1].what = "detach"
               /\ trace'[1].obj = x]_vars

C29_Witness ==
    /\ last.op = "detach"
    /\ last.attached = 0
    /\ attached_objects_[hash(last.obj)] = 0
    /\ Len(HookEvents(trace, "detach", last.obj)) = 1
    /\ \E k \in 1..Len(token_[last.obj].signal_) :
            token_[last.obj].signal_[k].slot = OnExpired(last.obj)

----------------------------------------------------------------------------
(* Attaching what has expired (SpecAttachExpired).                         *)

\* C30: attaching an object that has expired, or that the attach hook
\* expires, calls the attach hook and leaves an entry with a connected
\* subscription that will never fire: no detach hook is called for it by
\* the attach or by any later call, and the entry stays until detach is
\* called with the object or the attacher is destroyed, which remove it.
C30_ExpiredAttachStays ==
    [][\A x \in Objs :
        /\ (last'.op = "attach" /\ last'.obj = x /\ token_'[x].expired_)
             => /\ Len(HookEvents(trace', "attach", x)) = 1
                /\ attached_objects_'[hash(x)] = Len(token_'[x].signal_)
                /\ Subscriptions(token_', x) = {attached_objects_'[hash(x)]}
                /\ (token_[x].expired_ \/ attached_objects_[hash(x)] = 0)
                        => HookEvents(trace', "detach", x) = <<>>
        /\ (/\ token_[x].expired_
            /\ attached_objects_[hash(x)] # 0
            /\ ~(last'.op = "detach" /\ last'.obj = x)
            /\ last'.op # "attacher_destroy")
             => /\ attached_objects_'[hash(x)] # 0
                /\ HookEvents(trace', "detach", x) = <<>>
        /\ (/\ token_[x].expired_
            /\ attached_objects_[hash(x)] # 0
            /\ \/ last'.op = "detach" /\ last'.obj = x
               \/ last'.op = "attacher_destroy")
             => attached_objects_'[hash(x)] = 0]_vars

C30_Witness ==
    /\ last.op = "attach"
    /\ last.expired
    /\ last.attached = 0
    /\ token_[last.obj].expired_
    /\ attached_objects_[hash(last.obj)] # 0
    /\ token_[last.obj].signal_[attached_objects_[hash(last.obj)]].connected
    /\ Len(HookEvents(trace, "attach", last.obj)) = 1
    /\ HookEvents(trace, "detach", last.obj) = <<>>

----------------------------------------------------------------------------
(* Facades of a getter whose function is replaced (SpecGetterObserver).    *)

\* C31: the facade observer() returns holds the function bound at that
\* moment, and set() on the getter changes no facade: the facade's get()
\* and boolean conversion answer from the function it was made with, get()
\* on the getter answers from the function set last, and observe() on the
\* facade registers at the back of the getter's own channel.
C31_ObserverKeepsItsFunction ==
    [][/\ \A k \in 1..Len(facades) : facades'[k] = facades[k]
       /\ last'.op = "observer"
            => /\ Len(facades') = Len(facades) + 1
               /\ facades'[last'.id].observer.getter_ = getter_
       /\ last'.op = "set"
            => facades' = facades
       /\ last'.op = "observer_get"
            => /\ last'.outcome =
                    std_function_call(facades[last'.id].observer.getter_,
                                      counter).outcome
               /\ last'.v =
                    std_function_call(facades[last'.id].observer.getter_,
                                      counter).value
       /\ last'.op = "observer_bool"
            => (last'.v = 1) = facades[last'.id].observer.getter_.bound
       /\ last'.op = "get"
            => /\ last'.outcome = std_function_call(getter_, counter).outcome
               /\ last'.v = std_function_call(getter_, counter).value
       /\ last'.op = "observer_observe"
            => /\ Len(slots') = Len(slots) + 1
               /\ SubSeq(slots', 1, Len(slots)) = slots
               /\ slots'[Len(slots')].connected
       /\ last'.op = "notify"
            => Invoked(log') = ActiveIds(slots)]_vars

C31_Witness ==
    /\ last.op = "observer_get"
    /\ facades[last.id].observer.getter_ # getter_
    /\ getter_.bound
    /\ facades[last.id].observer.getter_.bound
    /\ last.outcome = "returned"
    /\ last.v = std_function_call(facades[last.id].observer.getter_, counter).value
    /\ last.v # std_function_call(getter_, counter).value

----------------------------------------------------------------------------
(* Writing to a property that was move-constructed (SpecMove,              *)
(* SpecMoveDefault).                                                       *)

\* The call being made is a set or an assignment on the object constructed
\* by the move.
WritesMoved == last'.op \in {"moved_set", "moved_assign"}

\* C32: set and assignment on a property that was move-constructed work on
\* that property: its own value is compared and replaced, its own
\* observers are notified, and the property it was constructed from is
\* not written.
C32_MovedSetterIsItsOwn ==
    [][WritesMoved
          => LET stores == last'.v # moved.value_ \/ last'.force
             IN  /\ value_' = value_
                 /\ slots' = slots
                 /\ last'.ended = "returned"
                 /\ moved'.value_ = IF stores THEN last'.v ELSE moved.value_
                 /\ (stores /\ last'.notify)
                        => /\ Invoked(log') = ActiveIds(moved.signal_)
                           /\ \A p \in DOMAIN log' : log'[p].seen = last'.v
                 /\ ~(stores /\ last'.notify) => log' = <<>>]_vars

C32_Witness ==
    /\ last.op = "moved_set"
    /\ last.v # last.old
    /\ last.v # last.rhs_old
    /\ last.active # {}
    /\ value_ = last.v
    /\ moved.value_ = last.old
    /\ log = <<>>

----------------------------------------------------------------------------
(* Writing to a one-shot property through its base class (SpecOneShotBase).*)

\* C33: a write made through the property_base interface of a one-shot
\* property follows the rules of a property, latched or not: it stores
\* unless the value is equal and not forced, notifies when it stored and
\* was asked to, and leaves the latch as it was.
C33_BaseWriteIgnoresLatch ==
    [][last'.op = "set"
          => LET stores == last'.v # value_ \/ last'.force
             IN  /\ flag_' = flag_
                 /\ value_' = IF stores THEN last'.v ELSE value_
                 /\ (stores /\ last'.notify)
                        => /\ Invoked(log') = ActiveIds(slots)
                           /\ \A p \in DOMAIN log' : log'[p].seen = last'.v
                 /\ ~(stores /\ last'.notify) => log' = <<>>]_vars

C33_Witness ==
    /\ last.op = "set"
    /\ last.latched
    /\ flag_
    /\ last.v # last.old
    /\ value_ = last.v
    /\ last.notify
    /\ log # <<>>

====
